---- MODULE Spec2Model ----
(***************************************************************************)
(* Response cache, instant matcher and streaming request lifecycle of the  *)
(* PandaNexus AIService (QuantumResponseCache + AIService).                *)
(* Texts are sequences of one-character strings, so that trimming,         *)
(* matching, splitting and hashing are computed as the code computes them. *)
(***************************************************************************)
EXTENDS Integers, Sequences, FiniteSets, TLC

\* ------------------------------------------------------------------ bounds
MaxReads == 1          \* reader.read() results consumed per network call
MaxSize == 2           \* QuantumResponseCache constructor argument (maxSize)
MaxTicks == 1          \* number of clock advances
CacheOps == 4          \* set/get calls in the cache-only specification
CacheTicks == 2        \* clock advances in the cache-only specification
MaxText == 3           \* length of the texts handed to simulateTyping directly

\* ------------------------------------------------------- program constants
DefaultBaseTtl == 15 * 60 * 1000   \* default of the baseTtl parameter of set
TickMs == 20 * 60 * 1000           \* granularity of the modelled clock (whole seconds)
Undefined == "undefined"
Null == "null"

\* --------------------------------------------------------------- text helpers
CharCode ==
  "a" :> 97 @@ "b" :> 98 @@ "c" :> 99 @@ "d" :> 100 @@ "e" :> 101 @@ "f" :> 102 @@ "g" :> 103 @@ "h" :> 104 @@ "i" :> 105 @@ "j" :> 106 @@ "k" :> 107 @@ "l" :> 108 @@ "m" :> 109 @@ "n" :> 110 @@ "o" :> 111 @@ "p" :> 112 @@ "q" :> 113 @@ "r" :> 114 @@ "s" :> 115 @@ "t" :> 116 @@ "u" :> 117 @@ "v" :> 118 @@ "w" :> 119 @@ "x" :> 120 @@ "y" :> 121 @@ "z" :> 122 @@ "A" :> 65 @@ "B" :> 66 @@ "C" :> 67 @@ "D" :> 68 @@ "E" :> 69 @@ "F" :> 70 @@ "G" :> 71 @@ "H" :> 72 @@ "I" :> 73 @@ "J" :> 74 @@ "K" :> 75 @@ "L" :> 76 @@ "M" :> 77 @@ "N" :> 78 @@ "O" :> 79 @@ "P" :> 80 @@ "Q" :> 81 @@ "R" :> 82 @@ "S" :> 83 @@ "T" :> 84 @@ "U" :> 85 @@ "V" :> 86 @@ "W" :> 87 @@ "X" :> 88 @@ "Y" :> 89 @@ "Z" :> 90 @@ "0" :> 48 @@ "1" :> 49 @@ "2" :> 50 @@ "3" :> 51 @@ "4" :> 52 @@ "5" :> 53 @@ "6" :> 54 @@ "7" :> 55 @@ "8" :> 56 @@ "9" :> 57 @@ " " :> 32 @@ ":" :> 58 @@ "[" :> 91 @@ "]" :> 93 @@ "{" :> 123 @@ "}" :> 125 @@ "," :> 44 @@ "\"" :> 34 @@ "!" :> 33 @@ "." :> 46 @@ "backtick" :> 96 @@ "'" :> 39 @@ "-" :> 45 @@ "\n" :> 10 @@ "bullet" :> 8226 @@ "*" :> 42 @@ "\\" :> 92 @@ "stop" :> 9209 @@ "vs16" :> 65039

UpperToLower ==
  "A" :> "a" @@ "B" :> "b" @@ "C" :> "c" @@ "D" :> "d" @@ "E" :> "e" @@ "F" :> "f" @@ "G" :> "g" @@ "H" :> "h" @@ "I" :> "i" @@ "J" :> "j" @@ "K" :> "k" @@ "L" :> "l" @@ "M" :> "m" @@ "N" :> "n" @@ "O" :> "o" @@ "P" :> "p" @@ "Q" :> "q" @@ "R" :> "r" @@ "S" :> "s" @@ "T" :> "t" @@ "U" :> "u" @@ "V" :> "v" @@ "W" :> "w" @@ "X" :> "x" @@ "Y" :> "y" @@ "Z" :> "z"

Digits36 == <<"0", "1", "2", "3", "4", "5", "6", "7", "8", "9", "a", "b", "c", "d", "e", "f", "g", "h", "i", "j", "k", "l", "m", "n", "o", "p", "q", "r", "s", "t", "u", "v", "w", "x", "y", "z">>

\* String.prototype.toLowerCase
toLowerCase(s) ==
  [i \in 1..Len(s) |-> IF s[i] \in DOMAIN UpperToLower THEN UpperToLower[s[i]] ELSE s[i]]

IsSpace(ch) == ch \in {" ", "\n"}

\* String.prototype.trim
RECURSIVE TrimLeft(_)
TrimLeft(s) == IF s # <<>> /\ IsSpace(Head(s)) THEN TrimLeft(Tail(s)) ELSE s

RECURSIVE TrimRight(_)
TrimRight(s) ==
  IF s # <<>> /\ IsSpace(s[Len(s)]) THEN TrimRight(SubSeq(s, 1, Len(s) - 1)) ELSE s

trim(s) == TrimRight(TrimLeft(s))

\* p occurs in s at index i
MatchesAt(s, p, i) ==
  /\ i >= 1
  /\ i + Len(p) - 1 <= Len(s)
  /\ \A j \in 1..Len(p) : s[i + j - 1] = p[j]

\* String.prototype.startsWith / includes
startsWith(s, p) == MatchesAt(s, p, 1)

includes(s, p) == \E i \in 1..(Len(s) + 1) : MatchesAt(s, p, i)

\* the regular expression  a.*b  tested anywhere in s (no line breaks in s)
includesThen(s, a, b) ==
  \E i \in 1..(Len(s) + 1) :
    /\ MatchesAt(s, a, i)
    /\ \E j \in (i + Len(a))..(Len(s) + 1) : MatchesAt(s, b, j)

\* String.prototype.split(' ')
RECURSIVE SplitFrom(_, _)
SplitFrom(s, cur) ==
  IF s = <<>> THEN <<cur>>
  ELSE IF Head(s) = " " THEN <<cur>> \o SplitFrom(Tail(s), <<>>)
  ELSE SplitFrom(Tail(s), Append(cur, Head(s)))

split(s) == SplitFrom(s, <<>>)

RECURSIVE Concat(_)
Concat(ss) == IF ss = <<>> THEN <<>> ELSE Head(ss) \o Concat(Tail(ss))


\* ------------------------------------------------------------- cache keys
\* quantumHash: hash = ((hash << 5) + hash) + charCodeAt(i), from 5381, then
\* hash >>> 0.  The value modulo 2^32 is kept as two 16-bit halves <<hi, lo>>.
HashStep(h, code) ==
  LET lo == 33 * h[2] + code
      hi == 33 * h[1] + (lo \div 65536)
  IN  <<hi % 65536, lo % 65536>>

\* the loop over str[from..to]
RECURSIVE HashLoop(_, _, _, _)
HashLoop(h, str, from, to) ==
  IF to < from THEN h ELSE HashStep(HashLoop(h, str, from, to - 1), CharCode[str[to]])

\* the hash after the first n characters; the loop is evaluated in blocks of
\* 16 characters to keep the evaluation depth small
RECURSIVE HashUpTo(_, _)
HashUpTo(str, n) ==
  IF n = 0 THEN <<5381 \div 65536, 5381 % 65536>>
  ELSE LET from == ((n - 1) \div 16) * 16 + 1
           h == HashUpTo(str, from - 1)
       IN  IF h[1] >= 0 THEN HashLoop(h, str, from, n) ELSE h

\* Number.prototype.toString(36) of the unsigned value hi * 65536 + lo
RECURSIVE ToString36(_)
ToString36(h) ==
  LET qhi == h[1] \div 36
      rest == (h[1] % 36) * 65536 + h[2]
      q == <<qhi, rest \div 36>>
      d == Digits36[(rest % 36) + 1]
  IN  IF q = <<0, 0>> THEN <<d>> ELSE Append(ToString36(q), d)

quantumHash(str) == ToString36(HashUpTo(str, Len(str)))

\* JSON.stringify of a string, without the enclosing quotes: the quote, the
\* backslash and the line break are escaped; s[lo..hi] is split in halves
RECURSIVE Quote(_, _, _)
Quote(s, lo, hi) ==
  IF hi < lo THEN <<>>
  ELSE IF lo = hi
    THEN IF s[lo] = "\n" THEN <<"\\", "n">>
         ELSE IF s[lo] \in {"\"", "\\"} THEN <<"\\", s[lo]>>
         ELSE <<s[lo]>>
  ELSE LET mid == (lo + hi) \div 2
       IN  Quote(s, lo, mid) \o Quote(s, mid + 1, hi)

\* JSON.stringify of one message; an undefined image (the empty text here)
\* is omitted
StringifyMessage(m) ==
  <<"{", "\"", "r", "o", "l", "e", "\"", ":", "\"">> \o m.role \o <<"\"", ",", "\"", "c", "o", "n", "t", "e", "n", "t", "\"", ":", "\"">> \o Quote(m.content, 1, Len(m.content)) \o <<"\"">>
    \o (IF m.image = <<>> THEN <<>> ELSE <<",", "\"", "i", "m", "a", "g", "e", "\"", ":", "\"">> \o m.image \o <<"\"">>)
    \o <<"}">>

RECURSIVE StringifyList(_)
StringifyList(ms) ==
  IF ms = <<>> THEN <<>>
  ELSE IF Len(ms) = 1 THEN StringifyMessage(ms[1])
  ELSE StringifyMessage(ms[1]) \o <<",">> \o StringifyList(Tail(ms))

\* Array.prototype.slice(-n)
sliceLast(ms, n) == IF Len(ms) <= n THEN ms ELSE SubSeq(ms, Len(ms) - n + 1, Len(ms))

\* a key computed from the conversation alone
getCacheKeyOfMessages(messages, serviceType) ==
  quantumHash(<<"[">> \o StringifyList(sliceLast(messages, 3)) \o <<"]">>)

getCacheKey(messages, serviceType) ==
  quantumHash(serviceType \o <<":">> \o <<"[">> \o StringifyList(sliceLast(messages, 3)) \o <<"]">>)

\* ------------------------------------------------------ instant responses
\* The canned texts are abbreviated to their first words.
instantResponses == <<
  [alts |-> <<<<"h", "e", "l", "l", "o">>, <<"h", "i">>, <<"h", "e", "y">>, <<"g", "r", "e", "e", "t", "i", "n", "g", "s">>, <<"g", "o", "o", "d", " ", "m", "o", "r", "n", "i", "n", "g">>, <<"g", "o", "o", "d", " ", "a", "f", "t", "e", "r", "n", "o", "o", "n">>, <<"g", "o", "o", "d", " ", "e", "v", "e", "n", "i", "n", "g">>>>, then |-> <<>>, response |-> <<"H", "e", "l", "l", "o", "!", " ", "I", "'", "m">>],
  [alts |-> <<<<"t", "h", "a", "n", "k", "s">>, <<"t", "h", "a", "n", "k", " ", "y", "o", "u">>, <<"a", "p", "p", "r", "e", "c", "i", "a", "t", "e", " ", "i", "t">>, <<"c", "h", "e", "e", "r", "s">>>>, then |-> <<>>, response |-> <<"Y", "o", "u", "'", "r", "e", " ", "w", "e", "l", "c", "o", "m", "e", "!">>],
  [alts |-> <<<<"h", "o", "w", " ", "a", "r", "e", " ", "y", "o", "u">>, <<"h", "o", "w", "'", "s", " ", "i", "t", " ", "g", "o", "i", "n", "g">>, <<"h", "o", "w", " ", "d", "o", " ", "y", "o", "u", " ", "d", "o">>>>, then |-> <<>>, response |-> <<"R", "u", "n", "n", "i", "n", "g", " ", "a", "t">>],
  [alts |-> <<<<"w", "h", "a", "t", " ", "c", "a", "n", " ", "y", "o", "u", " ", "d", "o">>, <<"w", "h", "a", "t", " ", "a", "r", "e", " ", "y", "o", "u", "r", " ", "c", "a", "p", "a", "b", "i", "l", "i", "t", "i", "e", "s">>, <<"h", "e", "l", "p">>>>, then |-> <<>>, response |-> <<"I", "'", "m", " ", "t", "h", "e">>],
  [alts |-> <<<<"w", "h", "o", " ", "a", "r", "e", " ", "y", "o", "u">>, <<"w", "h", "a", "t", " ", "a", "r", "e", " ", "y", "o", "u">>, <<"i", "n", "t", "r", "o", "d", "u", "c", "e", " ", "y", "o", "u", "r", "s", "e", "l", "f">>>>, then |-> <<>>, response |-> <<"I", "'", "m", " ", "P", "a", "n", "d", "a", "N", "e", "x", "u", "s">>],
  [alts |-> <<<<"b", "y", "e">>, <<"g", "o", "o", "d", "b", "y", "e">>, <<"s", "e", "e", " ", "y", "o", "u">>, <<"f", "a", "r", "e", "w", "e", "l", "l">>>>, then |-> <<>>, response |-> <<"K", "e", "e", "p", " ", "b", "u", "i", "l", "d", "i", "n", "g">>],
  [alts |-> <<<<"c", "r", "e", "a", "t", "e">>, <<"b", "u", "i", "l", "d">>, <<"m", "a", "k", "e">>>>, then |-> <<"a", "p", "p">>, response |-> <<"L", "e", "t", "'", "s", " ", "b", "u", "i", "l", "d">>],
  [alts |-> <<<<"f", "i", "x">>, <<"d", "e", "b", "u", "g">>, <<"e", "r", "r", "o", "r">>, <<"p", "r", "o", "b", "l", "e", "m">>>>, then |-> <<>>, response |-> <<"I", "'", "m", " ", "y", "o", "u", "r">>],
  [alts |-> <<<<"d", "e", "p", "l", "o", "y">>, <<"p", "u", "b", "l", "i", "s", "h">>, <<"h", "o", "s", "t">>>>, then |-> <<>>, response |-> <<"R", "e", "a", "d", "y", " ", "t", "o">>],
  [alts |-> <<<<"c", "o", "d", "e">>, <<"c", "o", "d", "i", "n", "g">>, <<"p", "r", "o", "g", "r", "a", "m">>>>, then |-> <<>>, response |-> <<"C", "o", "d", "e", " ", "S", "t", "u", "d", "i", "o">>] >>

\* getInstantResponse returns null as the empty text (both are falsy)
\* RegExp.prototype.test for  /^(alt1|alt2|...)/i  and  /^(alt1|...).*then/i
PatternTest(rule, s) ==
  \E k \in 1..Len(rule.alts) :
    /\ startsWith(s, rule.alts[k])
    /\ \E j \in (Len(rule.alts[k]) + 1)..(Len(s) + 1) : MatchesAt(s, rule.then, j)

RECURSIVE FirstRule(_, _)
FirstRule(s, i) ==
  IF i > Len(instantResponses) THEN 0
  ELSE IF PatternTest(instantResponses[i], s) THEN i
  ELSE FirstRule(s, i + 1)

getInstantResponse(message) ==
  LET trimmed == toLowerCase(trim(message))
      i == FirstRule(trimmed, 1)
  IN  IF i > 0 THEN instantResponses[i].response
      ELSE IF includes(trimmed, <<"c", "o", "d", "e">>) /\ Len(trimmed) < 20 THEN <<"R", "e", "a", "d", "y", " ", "c", "o", "d", "e", "!">>
      ELSE IF includes(trimmed, <<"h", "e", "l", "p">>) /\ Len(trimmed) < 15 THEN <<"I", "'", "m", " ", "h", "e", "r", "e">>
      ELSE <<>>

\* --------------------------------------------------------- image generation
\* /generate.*image|create.*image|make.*image|draw|picture|photo|art|visual/i
isImageGeneration(content) ==
  LET s == toLowerCase(content)
  IN  \/ includesThen(s, <<"g", "e", "n", "e", "r", "a", "t", "e">>, <<"i", "m", "a", "g", "e">>)
      \/ includesThen(s, <<"c", "r", "e", "a", "t", "e">>, <<"i", "m", "a", "g", "e">>)
      \/ includesThen(s, <<"m", "a", "k", "e">>, <<"i", "m", "a", "g", "e">>)
      \/ \E w \in {<<"d", "r", "a", "w">>, <<"p", "i", "c", "t", "u", "r", "e">>, <<"p", "h", "o", "t", "o">>, <<"a", "r", "t">>, <<"v", "i", "s", "u", "a", "l">>} : includes(s, w)

ImageVerbs == <<<<"g", "e", "n", "e", "r", "a", "t", "e">>, <<"c", "r", "e", "a", "t", "e">>, <<"m", "a", "k", "e">>, <<"d", "r", "a", "w">>>>

\* content.replace(/generate|create|make|draw/gi, '')
RECURSIVE RemoveVerbs(_)
RemoveVerbs(s) ==
  IF s = <<>> THEN <<>>
  ELSE LET hits == {k \in 1..Len(ImageVerbs) : startsWith(toLowerCase(s), ImageVerbs[k])}
       IN  IF hits = {} THEN <<Head(s)>> \o RemoveVerbs(Tail(s))
           ELSE LET k == CHOOSE x \in hits : \A y \in hits : x <= y
                IN  RemoveVerbs(SubSeq(s, Len(ImageVerbs[k]) + 1, Len(s)))

imagePrompt(content) == trim(RemoveVerbs(content))

HexDigits == <<"0", "1", "2", "3", "4", "5", "6", "7", "8", "9", "A", "B", "C", "D", "E", "F">>

Unreserved ==
  {Digits36[i] : i \in 1..36} \cup DOMAIN UpperToLower \cup {"-", "_", ".", "!", "~", "*", "'", "(", ")"}

\* encodeURIComponent for characters below U+0080
encodeURIComponent(s) ==
  Concat([i \in 1..Len(s) |->
            IF s[i] \in Unreserved THEN <<s[i]>>
            ELSE <<"%", HexDigits[(CharCode[s[i]] \div 16) + 1], HexDigits[(CharCode[s[i]] % 16) + 1]>>])

RECURSIVE ToDecimal(_)
ToDecimal(n) ==
  IF n < 10 THEN <<Digits36[n + 1]>> ELSE Append(ToDecimal(n \div 10), Digits36[(n % 10) + 1])

imageUrlFor(prompt, time) ==
  <<"h", "t", "t", "p", "s", ":", "/", "/", "i", "m", "a", "g", "e", ".", "p", "o", "l", "l", "i", "n", "a", "t", "i", "o", "n", "s", ".", "a", "i", "/", "p", "r", "o", "m", "p", "t", "/">> \o encodeURIComponent(prompt)
    \o <<"?", "w", "i", "d", "t", "h", "=", "1", "0", "2", "4", "&", "h", "e", "i", "g", "h", "t", "=", "1", "0", "2", "4", "&", "s", "e", "e", "d", "=">> \o ToDecimal(time) \o <<"&", "e", "n", "h", "a", "n", "c", "e", "=", "t", "r", "u", "e", "&", "m", "o", "d", "e", "l", "=", "f", "l", "u", "x">>

\* the descriptive text of the image path, abbreviated
imageResponseText(prompt) == <<"f", "o", "r", ":", " ", "\"">> \o prompt \o <<"\"">>

\* ------------------------------------------------------ models and fallback
ServiceTypes == {<<"a", "u", "t", "o">>, <<"c", "o", "d", "e">>, <<"c", "r", "e", "a", "t", "i", "v", "e">>, <<"k", "n", "o", "w", "l", "e", "d", "g", "e">>, <<"g", "e", "n", "e", "r", "a", "l">>}

models ==
  [s \in ServiceTypes |->
     IF s = <<"c", "o", "d", "e">> THEN "deepseek/deepseek-coder"
     ELSE IF s = <<"c", "r", "e", "a", "t", "i", "v", "e">> THEN "anthropic/claude-3.5-sonnet"
     ELSE IF s = <<"k", "n", "o", "w", "l", "e", "d", "g", "e">> THEN "google/gemini-pro-1.5"
     ELSE "qwen/qwen-2.5-72b-instruct:free"]

\* this.models[serviceType] || this.models.auto
selectedModel(serviceType) ==
  IF serviceType \in DOMAIN models THEN models[serviceType] ELSE models[<<"a", "u", "t", "o">>]

\* the fallbacks table has no entry for auto; texts abbreviated
fallbacks ==
  [s \in {<<"c", "o", "d", "e">>, <<"c", "r", "e", "a", "t", "i", "v", "e">>, <<"k", "n", "o", "w", "l", "e", "d", "g", "e">>, <<"g", "e", "n", "e", "r", "a", "l">>} |->
     IF s = <<"c", "o", "d", "e">> THEN <<"C", "o", "d", "e", " ", "S", "t", "u", "d", "i", "o">>
     ELSE IF s = <<"c", "r", "e", "a", "t", "i", "v", "e">> THEN <<"C", "r", "e", "a", "t", "i", "v", "e", " ", "E", "n", "g", "i", "n", "e">>
     ELSE IF s = <<"k", "n", "o", "w", "l", "e", "d", "g", "e">> THEN <<"K", "n", "o", "w", "l", "e", "d", "g", "e", " ", "O", "r", "a", "c", "l", "e">>
     ELSE <<"P", "a", "n", "d", "a", "N", "e", "x", "u", "s", " ", "C", "o", "m", "p", "a", "n", "i", "o", "n">>]

\* one text for every category
getFallbackResponseGeneral(content, serviceType) == fallbacks[<<"g", "e", "n", "e", "r", "a", "l">>]

getFallbackResponse(content, serviceType) ==
  IF serviceType \in DOMAIN fallbacks THEN fallbacks[serviceType] ELSE fallbacks[<<"g", "e", "n", "e", "r", "a", "l">>]


\* ----------------------------------------------------- QuantumResponseCache
\* The cache Map is a sequence of entries in insertion order, hitCount a
\* function on the keys it holds.  quality is kept in tenths, hit counts in
\* tenths of a hit, times in milliseconds.
CacheKeys(c) == {c[i].key : i \in 1..Len(c)}

IndexOf(c, key) ==
  IF key \in CacheKeys(c) THEN CHOOSE i \in 1..Len(c) : c[i].key = key ELSE 0

RemoveKey(c, key) == SelectSeq(c, LAMBDA e : e.key # key)

DropKey(h, key) == [k \in (DOMAIN h) \ {key} |-> h[k]]

PutKey(h, key, v) == [k \in (DOMAIN h) \cup {key} |-> IF k = key THEN v ELSE h[k]]

\* this.hitCount.get(key) || 0
HitsOf(h, key) == IF key \in DOMAIN h THEN h[key] ELSE 0

\* Date.now() > item.timestamp + item.ttl * (1 + item.quality * 0.5)
Expired(item, time) == 20 * (time - item.timestamp) > item.ttl * (20 + item.quality)

\* the null result of get
NoResponse == [content |-> <<>>, model |-> Null, imageUrl |-> <<>>]

\* a get that never finds anything
CacheGetMiss(c, h, key, time) ==
  [cache |-> c, hitCount |-> h, hit |-> FALSE, response |-> NoResponse]

\* get(key): the store after the call and the value returned (hit = non-null)
CacheGet(c, h, key, time) ==
  LET i == IndexOf(c, key)
  IN  IF i = 0 THEN [cache |-> c, hitCount |-> h, hit |-> FALSE, response |-> NoResponse]
      ELSE IF Expired(c[i], time)
        THEN [cache |-> RemoveKey(c, key), hitCount |-> DropKey(h, key), hit |-> FALSE,
              response |-> NoResponse]
      ELSE [cache |-> c,
            hitCount |-> PutKey(h, key, HitsOf(h, key) + 10 + c[i].quality),
            hit |-> TRUE, response |-> c[i].response]

calculateQuality(response) ==
  LET content == response.content
      s1 == IF Len(content) > 50 /\ Len(content) < 2000 THEN 2 ELSE 0
      s2 == IF includes(content, <<"backtick", "backtick", "backtick">>) \/ includes(content, <<"f", "u", "n", "c", "t", "i", "o", "n">>)
               \/ includes(content, <<"c", "l", "a", "s", "s">>) THEN 3 ELSE 0
      s3 == IF includes(content, <<"\n", "-">>) \/ includes(content, <<"1", ".">>)
               \/ includes(content, <<"bullet">>) THEN 2 ELSE 0
      s4 == IF includes(content, <<"i", "m", "p", "o", "r", "t">>) \/ includes(content, <<"e", "x", "p", "o", "r", "t">>)
               \/ includes(content, <<"c", "o", "n", "s", "t">>) THEN 1 ELSE 0
      score == 5 + s1 + s2 + s3 + s4
  IN  IF score < 10 THEN score ELSE 10

\* (item.quality * hits) / (age / 1000) as a fraction; a zero age gives
\* Infinity (or NaN), which is below nothing
EvictScore(item, h, time) ==
  [num |-> item.quality * HitsOf(h, item.key), den |-> (time - item.timestamp) \div 1000]

\* score < lowestScore; Infinity is the fraction with den = 0
ScoreBelow(score, low) ==
  /\ score.den # 0
  /\ \/ low.den = 0
     \/ score.num * low.den < low.num * score.den

RECURSIVE EvictScan(_, _, _, _, _, _)
EvictScan(c, h, time, i, lowestKey, lowestScore) ==
  IF i > Len(c) THEN lowestKey
  ELSE LET score == EvictScore(c[i], h, time)
       IN  IF ScoreBelow(score, lowestScore)
           THEN EvictScan(c, h, time, i + 1, c[i].key, score)
           ELSE EvictScan(c, h, time, i + 1, lowestKey, lowestScore)

\* an eviction that forgets the popularity counter
evictLowQualityKeepCount(c, h, time) ==
  LET lowestQualityKey == EvictScan(c, h, time, 1, <<>>, [num |-> 1, den |-> 0])
  IN  IF lowestQualityKey # <<>>
      THEN [cache |-> RemoveKey(c, lowestQualityKey), hitCount |-> h]
      ELSE [cache |-> c, hitCount |-> h]

evictLowQuality(c, h, time) ==
  LET lowestQualityKey == EvictScan(c, h, time, 1, <<>>, [num |-> 1, den |-> 0])
  IN  IF lowestQualityKey # <<>>
      THEN [cache |-> RemoveKey(c, lowestQualityKey), hitCount |-> DropKey(h, lowestQualityKey)]
      ELSE [cache |-> c, hitCount |-> h]

\* a ttl that ignores the content
DynamicTtlBase(content, quality, baseTtl) == baseTtl

\* ttl after the content-based multipliers 1.5, 2 and 1.8
DynamicTtl(content, quality, baseTtl) ==
  LET t1 == IF Len(content) > 500 THEN (baseTtl * 3) \div 2 ELSE baseTtl
      t2 == IF includes(content, <<"backtick", "backtick", "backtick">>) THEN t1 * 2 ELSE t1
  IN  IF quality > 8 THEN (t2 * 9) \div 5 ELSE t2

\* Map.prototype.set: an existing key keeps its place
PutEntry(c, e) ==
  IF e.key \in CacheKeys(c) THEN [i \in 1..Len(c) |-> IF c[i].key = e.key THEN e ELSE c[i]]
  ELSE Append(c, e)

\* set(key, response, baseTtl)
CacheSet(c, h, key, response, baseTtl, time) ==
  LET quality == calculateQuality(response)
      ttl == DynamicTtl(response.content, quality, baseTtl)
      ev == IF Len(c) >= MaxSize THEN evictLowQuality(c, h, time)
            ELSE [cache |-> c, hitCount |-> h]
  IN  [cache |-> PutEntry(ev.cache, [key |-> key, response |-> response,
                                     timestamp |-> time, ttl |-> ttl, quality |-> quality]),
       hitCount |-> PutKey(ev.hitCount, key, quality * 10)]


\* ------------------------------------------------------------------- state
VARIABLES
  now,              \* Date.now()
  cache,            \* quantumCache.cache
  hitCount,         \* quantumCache.hitCount
  abortController,  \* AIService.abortController: the call owning it, 0 = null
  calls,            \* one record per sendMessageStream invocation
  ops,              \* cache operations performed (cache-only specification)
  got,              \* key and outcome of the get made by the latest step, if any
  probe,            \* two argument lists and the results of a helper applied to each
  view              \* ChatInterface state: isLoading, streamingMessageId, messages

vars == <<now, cache, hitCount, abortController, calls, ops, got, probe, view>>

\* two invocations on the one service instance: 1 is started first, 2 later
Calls == {1, 2}

UserMsg(content) == [role |-> <<"u", "s", "e", "r">>, content |-> content, image |-> <<>>]

\* requests submitted by the caller: an empty conversation, an instant
\* match, an image prompt, plain questions, and an image-like turn that
\* carries an attachment
Requests ==
  { [messages |-> <<>>, serviceType |-> <<"a", "u", "t", "o">>],
    [messages |-> <<UserMsg(<<" ", "H", "i">>)>>, serviceType |-> <<"a", "u", "t", "o">>],
    [messages |-> <<UserMsg(<<"f", "i", "x">>)>>, serviceType |-> <<"c", "o", "d", "e">>],
    [messages |-> <<UserMsg(<<"d", "r", "a", "w", " ", "o", "x">>)>>, serviceType |-> <<"a", "u", "t", "o">>],
    [messages |-> <<UserMsg(<<"s", "u", "m", " ", "i", "t">>)>>, serviceType |-> <<"a", "u", "t", "o">>],
    [messages |-> <<UserMsg(<<"s", "u", "m", " ", "i", "t">>)>>, serviceType |-> <<"c", "o", "d", "e">>],
    [messages |-> << [role |-> <<"u", "s", "e", "r">>, content |-> <<"a", "r", "t">>, image |-> <<"i", "m", "g">>] >>,
     serviceType |-> <<"c", "r", "e", "a", "t", "i", "v", "e">>] }

\* what a caller passes as onChunk: a function, or nothing at all
Callbacks == {"function", Undefined}

\* the chat view before the first submit: not loading, no streaming message;
\* request[c] is the streamingId captured by the callback given to call c
\* (0: the call was not made by the view), stopped the calls the user stopped
NoView ==
  [isLoading |-> FALSE, streamingMessageId |-> 0, messages |-> <<>>,
   request |-> [c \in Calls |-> 0], streamedContent |-> [c \in Calls |-> <<>>],
   stopped |-> {}]

\* the requests that are also submitted without a callback
Misused ==
  { [messages |-> <<UserMsg(<<" ", "H", "i">>)>>, serviceType |-> <<"a", "u", "t", "o">>],
    [messages |-> <<UserMsg(<<"s", "u", "m", " ", "i", "t">>)>>, serviceType |-> <<"a", "u", "t", "o">>] }

\* the lines one reader.read() completes, as the loop body classifies them:
\* the sentinel, a frame with delta content, and lines that leave no trace
\* (a frame without content, malformed JSON, a non-data line)
Frames ==
  { [kind |-> "done", content |-> <<>>],
    [kind |-> "delta", content |-> <<"o", "k", " ", "1", ".">>],
    [kind |-> "empty", content |-> <<>>],
    [kind |-> "malformed", content |-> <<>>],
    [kind |-> "comment", content |-> <<>>] }

\* a well-formed frame that reports an error instead of a delta
ErrorFrames == { [kind |-> "error", content |-> <<>>] }

\* lines that may arrive without their line break (and wait in the buffer)
PartialFrames == {f \in Frames : f.kind \in {"done"}}

IdleCall ==
  [pc |-> "idle", messages |-> <<>>, serviceType |-> <<>>, onChunk |-> "function",
   cacheKey |-> <<>>,
   chunks |-> <<>>, text |-> <<>>, words |-> <<>>, typed |-> 0, next |-> "none",
   imageUrl |-> <<>>, fullResponse |-> <<>>, buffer |-> <<>>, reads |-> 0,
   aborted |-> FALSE, timer |-> "none",
   path |-> "none", gets |-> 0, sets |-> 0, fetches |-> 0,
   userCancel |-> FALSE, cancelSeen |-> FALSE, timedOut |-> FALSE, errorFrame |-> FALSE,
   supersedesCancelled |-> FALSE]

NoGet == [op |-> "none", key |-> <<>>, hit |-> FALSE]

NoProbe == [fn |-> "none", args |-> <<>>, results |-> <<>>]

Init ==
  /\ now = 0
  /\ cache = <<>>
  /\ hitCount = <<>>
  /\ abortController = 0
  /\ calls = [c \in Calls |-> IdleCall]
  /\ ops = 0
  /\ got = NoGet
  /\ probe = NoProbe
  /\ view = NoView

\* ------------------------------------------------------------- chat view
\* setMessages(prev => prev.map(msg => msg.id === id ? {...msg, ...} : msg))
SetMessage(v, id, content, isStreaming) ==
  [v EXCEPT !.messages = [i \in 1..Len(v.messages) |->
                            IF v.messages[i].id = id
                              THEN [v.messages[i] EXCEPT !.content = content,
                                                         !.isStreaming = isStreaming]
                              ELSE v.messages[i]]]

\* onChunkCallback of the submit that made call c; it closes over streamingId
\* (request[c]) and streamedContent
onChunkCallback(v, c, chunk) ==
  IF chunk.error # Undefined
    THEN [SetMessage(v, v.request[c],
                     IF chunk.chunk # <<>> THEN chunk.chunk ELSE <<"C", "o", "n", "n", "e", "c", "t", "i", "o", "n", " ", "e", "r", "r", "o", "r", " ", "o", "c", "c", "u", "r", "r", "e", "d">>,
                     FALSE)
            EXCEPT !.isLoading = FALSE, !.streamingMessageId = 0]
  ELSE IF ~chunk.isFinal
    THEN LET content == v.streamedContent[c] \o chunk.chunk
         IN  [SetMessage(v, v.request[c], content, TRUE) EXCEPT !.streamedContent[c] = content]
  ELSE [SetMessage(v, v.request[c], v.streamedContent[c], FALSE)
          EXCEPT !.isLoading = FALSE, !.streamingMessageId = 0]

RECURSIVE OnChunks(_, _, _)
OnChunks(v, c, chunks) ==
  IF chunks = <<>> THEN v ELSE OnChunks(onChunkCallback(v, c, Head(chunks)), c, Tail(chunks))

\* catch (error) of handleSubmit: the streaming message is removed
SubmitFailed(v, c) ==
  [v EXCEPT !.messages = SelectSeq(@, LAMBDA msg : msg.id # v.request[c]),
            !.isLoading = FALSE, !.streamingMessageId = 0]

\* what a handler of the service does to the view through call c: the chunks
\* it added reach onChunkCallback in order, a rejection reaches the catch block
DeliverCall(v, c, old, new) ==
  IF v.request[c] = 0 THEN v
  ELSE LET v1 == OnChunks(v, c, SubSeq(new[c].chunks, Len(old[c].chunks) + 1, Len(new[c].chunks)))
       IN  IF new[c].pc = "rejected" /\ old[c].pc # "rejected" THEN SubmitFailed(v1, c) ELSE v1

Deliver(v, old, new) == DeliverCall(DeliverCall(v, 1, old, new), 2, old, new)

\* the mutable service state threaded through one handler
State == [now |-> now, cache |-> cache, hitCount |-> hitCount,
          abortController |-> abortController, calls |-> calls]

\* the handler leaves the service in st and the chat view in v; chunks the
\* handler passed to a callback of the view have been applied to v by then
BecomesWith(st, v) ==
  /\ cache' = st.cache
  /\ hitCount' = st.hitCount
  /\ abortController' = st.abortController
  /\ calls' = st.calls
  /\ view' = Deliver(v, calls, st.calls)
  /\ UNCHANGED <<now, ops, got, probe>>

Becomes(st) == BecomesWith(st, view)

InFlight(c) == calls[c].pc \in {"fetching", "reading"}

Callable(st, c) == st.calls[c].onChunk = "function"

\* onChunk(chunk), reached with a callable onChunk
Emit(st, c, chunk) ==
  IF Callable(st, c) THEN [st EXCEPT !.calls[c].chunks = Append(@, chunk)] ELSE st

Chunk(text, isFinal, error, model) ==
  [chunk |-> text, isFinal |-> isFinal, error |-> error, model |-> model]

\* quantumCache.set(cacheKey, response) from call c
StoreResponse(st, c, response) ==
  LET r == CacheSet(st.cache, st.hitCount, st.calls[c].cacheKey, response, DefaultBaseTtl, st.now)
  IN  [st EXCEPT !.cache = r.cache, !.hitCount = r.hitCount, !.calls[c].sets = @ + 1]

\* finally { this.abortController = null }, then the promise resolves
Finally(st, c) == [st EXCEPT !.abortController = 0, !.calls[c].pc = "done"]

\* an exception leaves sendMessageStream: finally runs (where the throw was
\* inside try/catch/finally) and the promise rejects
Throws(st, c, insideTry) ==
  [(IF insideTry THEN Finally(st, c) ELSE st) EXCEPT !.calls[c].pc = "rejected",
                                                      !.calls[c].path = "threw"]

\* continuations that never write the image response to the store
AfterTypingNoStore(st, c) ==
  IF st.calls[c].next = "image"
    THEN Finally(Emit(st, c, Chunk(<<>>, TRUE, Undefined, "PandaNexus Art Engine")), c)
  ELSE IF st.calls[c].next = "fallback" THEN Finally(st, c)
  ELSE [st EXCEPT !.calls[c].pc = "done"]

\* the code that follows  await this.simulateTyping(...)  at each call site
AfterTyping(st, c) ==
  LET next == st.calls[c].next
  IN  IF next = "image"
        THEN LET s1 == Emit(st, c, Chunk(<<>>, TRUE, Undefined, "PandaNexus Art Engine"))
                 s2 == StoreResponse(s1, c, [content |-> st.calls[c].text,
                                             model |-> "PandaNexus Art Engine",
                                             imageUrl |-> st.calls[c].imageUrl])
             IN  Finally(s2, c)
      ELSE IF next = "fallback" THEN Finally(st, c)
      ELSE [st EXCEPT !.calls[c].pc = "done"]

\* one iteration of the loop of simulateTyping, with the final chunk and the
\* caller's continuation after the last word
TypeWord(st, c) ==
  LET i == st.calls[c].typed + 1
      words == st.calls[c].words
      s1 == Emit(st, c, Chunk(words[i], FALSE, Undefined, "PandaNexus Instant"))
      s2 == [s1 EXCEPT !.calls[c].typed = i]
  IN  IF ~Callable(st, c)
        \* onChunk(...) raises TypeError: uncaught outside try; inside try the
        \* catch block calls simulateTyping again, which raises it once more
        THEN Throws(st, c, st.calls[c].next # "return")
      ELSE IF i < Len(words) THEN [s2 EXCEPT !.calls[c].pc = "typing"]
      ELSE AfterTyping(Emit(s2, c, Chunk(<<>>, TRUE, Undefined, "PandaNexus Instant")), c)

\* chunk texts without the separators
TypingChunksBare(text) == split(text)

\* chunk texts of simulateTyping: word i carries its leading separator
TypingChunks(text) ==
  LET w == split(text) IN [i \in 1..Len(w) |-> IF i > 1 THEN <<" ">> \o w[i] ELSE w[i]]

\* simulateTyping(text, onChunk, speed) up to its first await
simulateTyping(st, c, text, next) ==
  TypeWord([st EXCEPT !.calls[c].text = text,
                      !.calls[c].words = TypingChunks(text),
                      !.calls[c].typed = 0,
                      !.calls[c].next = next], c)

\* a catch block that also stores the fallback text under the call's key
CatchBlockCaching(st, c, errorName) ==
  IF errorName = "AbortError"
    THEN IF Callable(st, c)
           THEN Finally(Emit([st EXCEPT !.calls[c].path = "cancelled"], c,
                             Chunk(<<>>, TRUE, "Request cancelled", Undefined)), c)
         ELSE Throws(st, c, TRUE)
  ELSE LET text == getFallbackResponse(st.calls[c].messages[Len(st.calls[c].messages)].content,
                                       st.calls[c].serviceType)
       IN  simulateTyping(
             StoreResponse([st EXCEPT !.calls[c].path = "fallback"], c,
                           [content |-> text, model |-> "PandaNexus Instant", imageUrl |-> <<>>]),
             c, text, "fallback")

\* a catch block that rethrows whatever it catches
CatchBlockRethrow(st, c, errorName) == Throws(st, c, TRUE)

\* catch (error) { ... }
CatchBlock(st, c, errorName) ==
  IF errorName = "AbortError"
    THEN IF Callable(st, c)
           THEN Finally(Emit([st EXCEPT !.calls[c].path = "cancelled"], c,
                             Chunk(<<>>, TRUE, "Request cancelled", Undefined)), c)
         ELSE Throws(st, c, TRUE)
  ELSE simulateTyping([st EXCEPT !.calls[c].path = "fallback"], c,
                      getFallbackResponse(st.calls[c].messages[Len(st.calls[c].messages)].content,
                                          st.calls[c].serviceType),
                      "fallback")


\* clearTimeout(timeoutId)
clearTimeout(st, c) ==
  IF st.calls[c].timer = "armed" THEN [st EXCEPT !.calls[c].timer = "cleared"] ELSE st

\* sendMessageStream from the cache check to the pending fetch
AfterInstant(st, c) ==
  LET messages == st.calls[c].messages
      serviceType == st.calls[c].serviceType
      lastMessage == messages[Len(messages)]
      cacheKey == getCacheKey(messages, serviceType)
      r == CacheGet(st.cache, st.hitCount, cacheKey, st.now)
      s1 == [st EXCEPT !.cache = r.cache, !.hitCount = r.hitCount,
                       !.calls[c].cacheKey = cacheKey, !.calls[c].gets = @ + 1]
  IN  IF r.hit
        THEN simulateTyping([s1 EXCEPT !.calls[c].path = "cache"], c, r.response.content, "return")
      ELSE IF isImageGeneration(lastMessage.content) /\ lastMessage.image = <<>>
        THEN LET prompt == imagePrompt(lastMessage.content)
             IN  simulateTyping([s1 EXCEPT !.calls[c].path = "image",
                                           !.calls[c].imageUrl = imageUrlFor(prompt, st.now)],
                                c, imageResponseText(prompt), "image")
      ELSE [s1 EXCEPT !.abortController = c,
                      !.calls[c].timer = "armed",
                      !.calls[c].pc = "fetching",
                      !.calls[c].fetches = @ + 1,
                      !.calls[c].path = "network"]

\* a sendMessageStream that never consults the instant-response matcher
sendMessageStreamNoInstant(st, c, messages, serviceType, onChunk) ==
  LET s0 == [st EXCEPT !.calls[c].messages = messages, !.calls[c].serviceType = serviceType,
                       !.calls[c].onChunk = onChunk]
  IN  IF messages = <<>>
        THEN [s0 EXCEPT !.calls[c].pc = "rejected", !.calls[c].path = "threw"]
      ELSE AfterInstant(s0, c)

\* sendMessageStream(messages, serviceType, onChunk) up to its first await
sendMessageStream(st, c, messages, serviceType, onChunk) ==
  LET s0 == [st EXCEPT !.calls[c].messages = messages, !.calls[c].serviceType = serviceType,
                       !.calls[c].onChunk = onChunk]
  IN  IF messages = <<>>
        THEN [s0 EXCEPT !.calls[c].pc = "rejected", !.calls[c].path = "threw"]
      ELSE LET instantResponse == getInstantResponse(messages[Len(messages)].content)
           IN  IF instantResponse # <<>>
                 THEN simulateTyping([s0 EXCEPT !.calls[c].path = "instant"], c,
                                     instantResponse, "return")
               ELSE AfterInstant(s0, c)

\* the for loop over the completed lines of one read
RECURSIVE ProcessLines(_, _, _)
ProcessLines(st, c, lines) ==
  IF lines = <<>> THEN st
  ELSE LET line == Head(lines)
       IN  IF line.kind = "done"
             THEN LET s1 == StoreResponse(st, c, [content |-> st.calls[c].fullResponse,
                                                  model |-> selectedModel(st.calls[c].serviceType),
                                                  imageUrl |-> <<>>])
                      s2 == Emit(s1, c, Chunk(<<>>, TRUE, Undefined,
                                              selectedModel(st.calls[c].serviceType)))
                  IN  IF Callable(st, c)
                        THEN Finally([s2 EXCEPT !.calls[c].path = "success"], c)
                      \* the TypeError of onChunk(...) lands in the outer catch block
                      ELSE CatchBlock(s1, c, "TypeError")
           ELSE IF line.kind = "delta" /\ line.content # <<>>
             \* without a callable onChunk the TypeError is swallowed by the
             \* catch around JSON.parse and the loop continues
             THEN ProcessLines(
                    Emit([st EXCEPT !.calls[c].fullResponse = @ \o line.content], c,
                         Chunk(line.content, FALSE, Undefined,
                               selectedModel(st.calls[c].serviceType))),
                    c, Tail(lines))
           \* parsed.choices is undefined in an error payload: no content, no throw
           ELSE IF line.kind = "error"
             THEN ProcessLines([st EXCEPT !.calls[c].errorFrame = TRUE], c, Tail(lines))
           ELSE ProcessLines(st, c, Tail(lines))

\* -------------------------------------------------------------------- actions
Send(c) ==
  /\ calls[c].pc = "idle"
  /\ c > 1 => calls[c - 1].pc # "idle"
  /\ \E r \in Requests :
       LET s1 == sendMessageStream(State, c, r.messages, r.serviceType, "function")
       IN  Becomes([s1 EXCEPT !.calls[c].supersedesCancelled =
                      \E a \in Calls : a < c /\ InFlight(a) /\ calls[a].userCancel /\ calls[a].aborted])

\* sendMessageStream called without a usable callback
SendWithoutCallback(c) ==
  /\ calls[c].pc = "idle"
  /\ c > 1 => calls[c - 1].pc # "idle"
  /\ \E r \in Misused, onChunk \in Callbacks \ {"function"} :
       Becomes(sendMessageStream(State, c, r.messages, r.serviceType, onChunk))

\* the timer of simulateTyping elapses
Type(c) ==
  /\ calls[c].pc = "typing"
  /\ \E st \in {TypeWord(State, c)} : Becomes(st)

\* the pending fetch or read rejects with AbortError once the signal is aborted
Aborted(c) ==
  /\ InFlight(c)
  /\ calls[c].aborted
  /\ Becomes(CatchBlock(State, c, "AbortError"))

\* fetch resolves with a response: ok, a non-2xx status, or no body
FetchResponds(c) ==
  /\ calls[c].pc = "fetching"
  /\ ~calls[c].aborted
  /\ \E outcome \in {"ok", "status", "nobody"} :
       LET s1 == clearTimeout(State, c)
       IN  IF outcome = "ok" THEN Becomes([s1 EXCEPT !.calls[c].pc = "reading"])
           ELSE Becomes(CatchBlock(s1, c, "Error"))

\* fetch rejects (network failure)
FetchFails(c) ==
  /\ calls[c].pc = "fetching"
  /\ ~calls[c].aborted
  /\ Becomes(CatchBlock(State, c, "TypeError"))

\* reader.read() resolves with bytes: the buffered partial line and the new
\* lines are processed; an unterminated last line stays in the buffer
ReadFrom(c, frames) ==
  /\ calls[c].pc = "reading"
  /\ ~calls[c].aborted
  /\ calls[c].reads < MaxReads
  /\ \E frame \in frames, terminated \in BOOLEAN :
       LET lines == calls[c].buffer \o (IF terminated THEN <<frame>> ELSE <<>>)
           s1 == [State EXCEPT !.calls[c].reads = @ + 1,
                               !.calls[c].buffer = IF terminated THEN <<>> ELSE <<frame>>]
       IN  /\ ~terminated => (calls[c].buffer = <<>> /\ frame \in PartialFrames)
           /\ Becomes(ProcessLines(s1, c, lines))

ReadValue(c) == ReadFrom(c, Frames)

\* reader.read() resolves with the bytes of an error payload frame
ReadErrorPayload(c) == ReadFrom(c, ErrorFrames)

\* reader.read() resolves with done: the loop breaks and the function ends
ReadDone(c) ==
  /\ calls[c].pc = "reading"
  /\ ~calls[c].aborted
  /\ Becomes(Finally([State EXCEPT !.calls[c].path = "ended"], c))

\* reader.read() rejects (connection lost)
ReadFails(c) ==
  /\ calls[c].pc = "reading"
  /\ ~calls[c].aborted
  /\ Becomes(CatchBlock(State, c, "TypeError"))

\* abortController.abort()
abort(st, a) == IF a = 0 THEN st ELSE [st EXCEPT !.calls[a].aborted = TRUE]

\* the setTimeout callback of call c
TimerFires(c) ==
  /\ calls[c].timer = "armed"
  /\ Becomes(abort([State EXCEPT !.calls[c].timer = "fired",
                                  !.calls[c].timedOut = InFlight(c)], abortController))

\* cancelRequest(); userCancel records the calls in flight at that moment,
\* cancelSeen the calls that had started and not yet resolved
cancelRequest(st) == [abort(st, st.abortController) EXCEPT !.abortController = 0]

UserCancels ==
  LET s1 == cancelRequest(State)
  IN  [s1 EXCEPT
        !.calls = [c \in Calls |->
                     IF InFlight(c)
                       THEN [s1.calls[c] EXCEPT !.userCancel = TRUE, !.cancelSeen = TRUE]
                     ELSE IF calls[c].pc = "typing"
                       THEN [s1.calls[c] EXCEPT !.cancelSeen = TRUE]
                     ELSE s1.calls[c]]]

CancelRequest ==
  /\ abortController # 0 \/ \E c \in Calls : InFlight(c)
  /\ Becomes(UserCancels)

Tick ==
  /\ now < MaxTicks * TickMs
  /\ now' = now + TickMs
  /\ UNCHANGED <<cache, hitCount, abortController, calls, ops, got, probe, view>>

Next ==
  \/ \E c \in Calls : Send(c)
  \/ \E c \in Calls : Type(c)
  \/ \E c \in Calls : Aborted(c)
  \/ \E c \in Calls : FetchResponds(c)
  \/ \E c \in Calls : FetchFails(c)
  \/ \E c \in Calls : ReadValue(c)
  \/ \E c \in Calls : ReadDone(c)
  \/ \E c \in Calls : ReadFails(c)
  \/ \E c \in Calls : TimerFires(c)
  \/ CancelRequest
  \/ Tick

Spec == Init /\ [][Next]_vars

\* the service under the scheduling the runtime guarantees: an armed timer
\* fires, an aborted fetch or read rejects, and the typing timers elapse;
\* the transport owes nothing (it may never respond, or stall mid-body)
FairSpec ==
  /\ Spec
  /\ \A c \in Calls : WF_vars(TimerFires(c)) /\ WF_vars(Aborted(c)) /\ WF_vars(Type(c))

\* --------------------------------------------------- chat view handlers
\* what the user types into the input box
Inputs == {<<" ", "H", "i">>, <<"s", "u", "m", " ", "i", "t">>}

selectedService == <<"a", "u", "t", "o">>

\* ids of the messages of the c-th submit: Date.now() and Date.now() + 1,
\* submits being at least two milliseconds apart
UserId(c) == 2 * c - 1

StreamingId(c) == 2 * c

StoppedMark == <<"\n", "\n", "stop", "vs16", " ">> \o <<"*", "*", "S", "t", "o", "p", "p", "e", "d", " ", "b", "y", " ", "u", "s", "e", "r", "*", "*">>

\* the body of handleStopStreaming once isLoading && streamingMessageId holds
StopStreaming ==
  LET id == view.streamingMessageId
      content == (CHOOSE msg \in {view.messages[i] : i \in 1..Len(view.messages)} :
                    msg.id = id).content
      v1 == [SetMessage(view, id, content \o StoppedMark, FALSE)
               EXCEPT !.isLoading = FALSE, !.streamingMessageId = 0,
                      !.stopped = @ \cup {c \in Calls : view.request[c] = id}]
  IN  BecomesWith(UserCancels, v1)

HandleStopStreaming ==
  /\ view.isLoading
  /\ view.streamingMessageId # 0
  /\ StopStreaming

\* recentMessages plus userMessage, mapped to role, content and image
conversationHistory(userMessage) ==
  LET history == sliceLast(view.messages, 8) \o <<userMessage>>
  IN  [i \in 1..Len(history) |->
         [role |-> history[i].role, content |-> history[i].content, image |-> <<>>]]

\* handleSubmit with a non-blank input; call c is the request it starts
HandleSubmit ==
  /\ ~(view.isLoading /\ view.streamingMessageId = 0)
  /\ IF view.isLoading /\ view.streamingMessageId # 0
       THEN StopStreaming
       ELSE \E c \in Calls, inputValue \in Inputs :
            /\ calls[c].pc = "idle"
            /\ c > 1 => calls[c - 1].pc # "idle"
            /\
                 LET userMessage == [id |-> UserId(c), role |-> <<"u", "s", "e", "r">>,
                                     content |-> inputValue, isStreaming |-> FALSE]
                     streamingMessage == [id |-> StreamingId(c), role |-> <<"a", "s", "s", "i", "s", "t", "a", "n", "t">>,
                                          content |-> <<>>, isStreaming |-> TRUE]
                     v1 == [view EXCEPT !.messages = @ \o <<userMessage, streamingMessage>>,
                                        !.isLoading = TRUE,
                                        !.streamingMessageId = StreamingId(c),
                                        !.request[c] = StreamingId(c)]
                     s1 == sendMessageStream(State, c, conversationHistory(userMessage),
                                             selectedService, "function")
                 IN  BecomesWith([s1 EXCEPT !.calls[c].supersedesCancelled =
                                    \E a \in Calls : a < c /\ InFlight(a) /\ calls[a].userCancel
                                                                      /\ calls[a].aborted],
                                 v1)

\* the service driven by the chat view alone
ViewNext ==
  \/ HandleSubmit
  \/ HandleStopStreaming
  \/ \E c \in Calls : Type(c)
  \/ \E c \in Calls : Aborted(c)
  \/ \E c \in Calls : FetchResponds(c)
  \/ \E c \in Calls : FetchFails(c)
  \/ \E c \in Calls : ReadValue(c)
  \/ \E c \in Calls : ReadDone(c)
  \/ \E c \in Calls : ReadFails(c)
  \/ \E c \in Calls : TimerFires(c)
  \/ Tick

ViewSpec == Init /\ [][ViewNext]_vars

\* the service talking to an endpoint that may also report errors mid-stream
ErrorFrameNext ==
  \/ Next
  \/ \E c \in Calls : ReadErrorPayload(c)

ErrorFrameSpec == Init /\ [][ErrorFrameNext]_vars

\* the service with callers that may also leave out the callback
MisuseNext ==
  \/ Next
  \/ \E c \in Calls : SendWithoutCallback(c)

MisuseSpec == Init /\ [][MisuseNext]_vars

\* --------------------------------------------- cache-only specification
\* set and get called directly on the store, at arbitrary clock readings
CacheKeySet ==
  {getCacheKey(r.messages, r.serviceType) :
     r \in {q \in Requests : q.messages # <<>> /\ getInstantResponse(q.messages[1].content) = <<>>
                              /\ q.messages[1].image = <<>>}}

Payloads ==
  { [content |-> <<"o", "k">>, model |-> "m", imageUrl |-> <<>>],
    [content |-> <<"o", "k", " ", "1", ".">>, model |-> "m", imageUrl |-> <<>>],
    [content |-> <<"backtick", "backtick", "backtick", " ", "1", ".">>, model |-> "m", imageUrl |-> <<>>] }

CacheSetOp ==
  /\ ops < CacheOps
  /\ \E key \in CacheKeySet, response \in Payloads :
       LET r == CacheSet(cache, hitCount, key, response, DefaultBaseTtl, now)
       IN  /\ cache' = r.cache
           /\ hitCount' = r.hitCount
           /\ got' = NoGet
  /\ ops' = ops + 1
  /\ UNCHANGED <<now, abortController, calls, probe, view>>

CacheGetOp ==
  /\ ops < CacheOps
  /\ \E key \in CacheKeySet :
       LET r == CacheGet(cache, hitCount, key, now)
       IN  /\ cache' = r.cache
           /\ hitCount' = r.hitCount
           /\ got' = [op |-> "get", key |-> key, hit |-> r.hit]
  /\ ops' = ops + 1
  /\ UNCHANGED <<now, abortController, calls, probe, view>>

CacheTick ==
  /\ now < CacheTicks * TickMs
  /\ now' = now + TickMs
  /\ got' = NoGet
  /\ UNCHANGED <<cache, hitCount, abortController, calls, ops, probe, view>>

\* clearChat of the chat view: aiService.clearCache() - AIService declares no
\* such member, so the call raises TypeError and the store is not touched
ClearChat ==
  /\ ops < CacheOps
  /\ got' = [op |-> "clearCache", key |-> <<>>, hit |-> FALSE]
  /\ ops' = ops + 1
  /\ UNCHANGED <<now, cache, hitCount, abortController, calls, probe, view>>

CacheNext == CacheSetOp \/ CacheGetOp \/ CacheTick \/ ClearChat

CacheSpec == Init /\ [][CacheNext]_vars

\* ------------------------------------------- helper-function specification
\* getCacheKey and getFallbackResponse applied to two argument lists drawn
\* from the conversations of the requests and the five service types
Conversations ==
  {r.messages : r \in {q \in Requests : q.messages # <<>>}}
    \cup { << UserMsg(<<"f", "i", "x">>), [role |-> <<"a", "s", "s", "i", "s", "t", "a", "n", "t">>, content |-> <<"o", "k">>, image |-> <<>>],
             UserMsg(<<"s", "u", "m", " ", "i", "t">>), UserMsg(<<"f", "i", "x">>) >> }

\* texts of letters, blanks and line breaks
Texts == UNION {[1..n -> {"a", " ", "\n"}] : n \in 0..MaxText}

ProbeInit ==
  /\ now = 0
  /\ cache = <<>>
  /\ hitCount = <<>>
  /\ abortController = 0
  /\ calls = [c \in Calls |-> IdleCall]
  /\ ops = 0
  /\ got = NoGet
  /\ view = NoView
  /\ probe \in {[fn |-> "none", args |-> <<[messages |-> m1, serviceType |-> s1],
                                          [messages |-> m2, serviceType |-> s2]>>,
                  results |-> <<>>] :
                   m1 \in Conversations, m2 \in Conversations,
                   s1 \in ServiceTypes, s2 \in ServiceTypes}
               \cup {[fn |-> "none", args |-> <<[text |-> t]>>, results |-> <<>>] : t \in Texts}

ApplyGetCacheKey ==
  /\ probe.fn = "none"
  /\ Len(probe.args) = 2
  /\ probe' = [probe EXCEPT !.fn = "getCacheKey",
                            !.results = [i \in 1..2 |-> getCacheKey(probe.args[i].messages,
                                                                    probe.args[i].serviceType)]]
  /\ UNCHANGED <<now, cache, hitCount, abortController, calls, ops, got, view>>

ApplyGetFallbackResponse ==
  /\ probe.fn = "none"
  /\ Len(probe.args) = 2
  /\ probe' = [probe EXCEPT !.fn = "getFallbackResponse",
                            !.results = [i \in 1..2 |->
                               getFallbackResponse(
                                 probe.args[i].messages[Len(probe.args[i].messages)].content,
                                 probe.args[i].serviceType)]]
  /\ UNCHANGED <<now, cache, hitCount, abortController, calls, ops, got, view>>

\* simulateTyping run to its end: every pending timer elapses
RECURSIVE RunTyping(_, _)
RunTyping(st, c) ==
  IF st.calls[c].pc = "typing" THEN RunTyping(TypeWord(st, c), c) ELSE st

ApplySimulateTyping ==
  /\ probe.fn = "none"
  /\ Len(probe.args) = 1
  /\ probe' = [probe EXCEPT !.fn = "simulateTyping",
                            !.results = RunTyping(simulateTyping(State, 1, probe.args[1].text,
                                                                 "return"), 1).calls[1].chunks]
  /\ UNCHANGED <<now, cache, hitCount, abortController, calls, ops, got, view>>

ProbeNext == ApplyGetCacheKey \/ ApplyGetFallbackResponse \/ ApplySimulateTyping

ProbeSpec == ProbeInit /\ [][ProbeNext]_vars

TypeOK ==
  /\ abortController \in Calls \cup {0}
  /\ \A c \in Calls : calls[c].pc \in {"idle", "typing", "fetching", "reading", "done", "rejected"}
  /\ CacheKeys(cache) = DOMAIN hitCount


\* ------------------------------------------------------------ observations
Started(c) == calls[c].pc \notin {"idle"}

Resolved(c) == calls[c].pc = "done"

FinalIndices(c) == {i \in 1..Len(calls[c].chunks) : calls[c].chunks[i].isFinal}

LastChunk(c) == calls[c].chunks[Len(calls[c].chunks)]

ChunkTexts(c) == [i \in 1..Len(calls[c].chunks) |-> calls[c].chunks[i].chunk]

LastContent(c) == calls[c].messages[Len(calls[c].messages)].content

\* the chunk texts simulateTyping delivers for a text: its words, then ''
SyntheticStream(text) == Append(TypingChunks(text), <<>>)

IsPrefix(s, full) == Len(s) <= Len(full) /\ s = SubSeq(full, 1, Len(s))

\* the matcher's answer for the latest turn of each request
InstantMatch ==
  [content \in {r.messages[Len(r.messages)].content : r \in {q \in Requests : q.messages # <<>>}}
     |-> getInstantResponse(content)]

\* ------------------------------------------------------------------ claims

\* C1: every resolved sendMessageStream call has delivered exactly one chunk
\* with isFinal = true, and that chunk is the last one delivered for the call.
C1_ExactlyOneFinalChunk ==
  \A c \in Calls :
    /\ \A i \in FinalIndices(c) : i = Len(calls[c].chunks)
    /\ Resolved(c) => Cardinality(FinalIndices(c)) = 1

\* C2: when a call that took the network path has resolved, a chunk with
\* isFinal = true has been delivered to its onChunk.
C2_NetworkResolveHasFinal ==
  \A c \in Calls :
    (Resolved(c) /\ calls[c].fetches > 0) => FinalIndices(c) # {}

\* C3: the response cache never holds more entries than its maximum size.
C3_CacheWithinCapacity == Len(cache) <= MaxSize

\* C4: a call on the fallback path has made no cache write, and no step
\* taken by a call on the fallback path changes the cache or the popularity
\* counters.
C4_FallbackLeavesCache ==
  [][\A c \in Calls :
       calls'[c].path = "fallback"
         => /\ calls'[c].sets = 0
            /\ calls'[c] # calls[c] => (cache' = cache /\ hitCount' = hitCount)]_vars

C4_Witness ==
  \E c \in Calls :
    /\ calls[c].path = "fallback"
    /\ Resolved(c)
    /\ ChunkTexts(c) = SyntheticStream(getFallbackResponse(LastContent(c), calls[c].serviceType))
    /\ cache # <<>>

\* C5: once call 2 has been started after call 1 was cancelled in flight by
\* cancelRequest, no further chunk is delivered to call 1's onChunk.
C5_CancelledCallSilent ==
  [][calls[2].supersedesCancelled => calls'[1].chunks = calls[1].chunks]_vars

\* C6: once call 2 has been started, and cancelRequest has not been called,
\* no further chunk is delivered to call 1's onChunk.
C6_SupersededCallSilent ==
  [][(Started(2) /\ ~calls[1].cancelSeen /\ ~calls'[1].cancelSeen)
       => calls'[1].chunks = calls[1].chunks]_vars

\* C7: at most one chat-endpoint request (pending fetch or pending stream
\* read) is in flight at any moment.
C7_AtMostOneInFlight == Cardinality({c \in Calls : InFlight(c)}) <= 1

\* C8: a call whose timeout expired while its request was pending, and that
\* the caller did not cancel, resolves with the category's fallback message
\* followed by a final chunk without an error tag.
C8_TimeoutGivesFallback ==
  \A c \in Calls :
    (calls[c].timedOut /\ ~calls[c].userCancel /\ Resolved(c))
      => /\ calls[c].path = "fallback"
         /\ calls[c].chunks # <<>>
         /\ LastChunk(c).isFinal
         /\ LastChunk(c).error = Undefined

\* C9: a call whose network request was in flight when cancelRequest was
\* called resolves with a single final chunk that carries the cancellation
\* tag, and without any fallback content.
C9_CancelGivesTaggedFinal ==
  \A c \in Calls :
    (calls[c].userCancel /\ Resolved(c))
      => /\ Cardinality(FinalIndices(c)) = 1
         /\ LastChunk(c).isFinal
         /\ LastChunk(c).error = "Request cancelled"
         /\ calls[c].path # "fallback"

\* C10: a call (with a callable onChunk) whose latest user turn matches an instant-response rule
\* delivers the canned text as a synthetic stream and makes no cache read,
\* no cache write and no network request.
C10_InstantSkipsCacheAndNetwork ==
  \A c \in Calls :
    (Started(c) /\ calls[c].messages # <<>> /\ calls[c].onChunk = "function")
      => LET instantResponse == InstantMatch[LastContent(c)]
             stream == SyntheticStream(instantResponse)
         IN  instantResponse # <<>>
               => /\ calls[c].path = "instant"
                  /\ calls[c].gets = 0
                  /\ calls[c].sets = 0
                  /\ calls[c].fetches = 0
                  /\ calls[c].pc \in {"typing", "done"}
                  /\ IsPrefix(ChunkTexts(c), stream)
                  /\ Resolved(c) => ChunkTexts(c) = stream

C10_Witness ==
  \E c \in Calls :
    /\ calls[c].path = "instant"
    /\ Resolved(c)
    /\ calls[c].serviceType = <<"c", "o", "d", "e">>
    /\ cache # <<>>

\* the cache key of each non-empty request
RequestKey ==
  [r \in {q \in Requests : q.messages # <<>>} |-> getCacheKey(r.messages, r.serviceType)]

\* C11: when (onChunk being callable) no instant rule matches the latest turn and the cache holds an
\* unexpired entry under the call's key, the call takes the cache path with
\* exactly the cached text; a call on the cache path issues no fetch, arms no
\* timer, and delivers (at every step it takes) the synthetic stream of that text and nothing else.
C11_CacheHitDeliversCachedText ==
  [][\A c \in Calls :
       /\ (calls[c].pc = "idle" /\ calls'[c].pc # "idle" /\ calls'[c].messages # <<>>)
            => LET key == RequestKey[[messages |-> calls'[c].messages,
                                      serviceType |-> calls'[c].serviceType]]
                   i == IndexOf(cache, key)
               IN  ( /\ calls'[c].onChunk = "function"
                     /\ InstantMatch[LastContent(c)'] = <<>>
                     /\ i # 0
                     /\ ~Expired(cache[i], now) )
                     => /\ calls'[c].path = "cache"
                        /\ calls'[c].text = cache[i].response.content
       /\ (calls'[c] # calls[c] /\ calls'[c].path = "cache")
            => /\ calls'[c].fetches = 0
               /\ calls'[c].timer = "none"
               /\ calls'[c].pc \in {"typing", "done"}
               /\ IsPrefix(ChunkTexts(c)', SyntheticStream(calls'[c].text))
               /\ Resolved(c)' => ChunkTexts(c)' = SyntheticStream(calls'[c].text)]_vars

C11_Witness ==
  \E c \in Calls :
    /\ calls[c].path = "cache"
    /\ Resolved(c)
    /\ calls[c].text = imageResponseText(<<"o", "x">>)
    /\ Len(calls[c].chunks) = 3

\* whether the latest turn of each request matches the image-generation pattern
ImageIntent ==
  [content \in {r.messages[Len(r.messages)].content : r \in {q \in Requests : q.messages # <<>>}}
     |-> isImageGeneration(content)]

\* C12: a call (with a callable onChunk) whose latest turn matches the image-generation pattern and has
\* no attachment, with no instant match and no live cache entry under its
\* key, takes the image path; a call on the image path issues no fetch and
\* arms no timer, and when it resolves the store holds, under the call's
\* key, the synthesized text together with the constructed image URL.
C12_ImagePathStoresWithoutFetch ==
  [][\A c \in Calls :
       /\ (calls[c].pc = "idle" /\ calls'[c].pc # "idle" /\ calls'[c].messages # <<>>)
            => LET lastMessage == calls'[c].messages[Len(calls'[c].messages)]
                   key == RequestKey[[messages |-> calls'[c].messages,
                                      serviceType |-> calls'[c].serviceType]]
                   i == IndexOf(cache, key)
               IN  ( /\ calls'[c].onChunk = "function"
                     /\ InstantMatch[lastMessage.content] = <<>>
                     /\ i = 0 \/ Expired(cache[i], now)
                     /\ ImageIntent[lastMessage.content]
                     /\ lastMessage.image = <<>> )
                     => calls'[c].path = "image"
       /\ (calls'[c] # calls[c] /\ calls'[c].path = "image")
            => /\ calls'[c].fetches = 0
               /\ calls'[c].timer = "none"
               /\ calls'[c].pc \in {"typing", "done"}
               /\ (~Resolved(c) /\ Resolved(c)')
                    => LET key == RequestKey[[messages |-> calls'[c].messages,
                                              serviceType |-> calls'[c].serviceType]]
                           j == IndexOf(cache', key)
                       IN  /\ j # 0
                           /\ cache'[j].response.content = calls'[c].text
                           /\ cache'[j].response.imageUrl = calls'[c].imageUrl
                           /\ cache'[j].timestamp = now]_vars

C12_Witness ==
  \E c \in Calls :
    /\ calls[c].path = "image"
    /\ Resolved(c)
    /\ calls[c].sets = 1
    /\ \E j \in 1..Len(cache) :
         /\ cache[j].key = calls[c].cacheKey
         /\ cache[j].response.imageUrl = calls[c].imageUrl
         /\ cache[j].response.imageUrl # <<>>

\* C13: a resolved call on the image path has delivered a final chunk that
\* carries the image URL the service built and cached. (AIStreamChunk has
\* the fields chunk, isFinal, error and model; the URL could only travel in
\* the chunk text.)
C13_FinalChunkCarriesImageUrl ==
  \A c \in Calls :
    (calls[c].path = "image" /\ Resolved(c))
      => \E i \in FinalIndices(c) :
           /\ calls[c].imageUrl # <<>>
           /\ includes(calls[c].chunks[i].chunk, calls[c].imageUrl)

\* the entry a direct get looked up, as it was before the call
Looked ==
  cache[IndexOf(cache, got'.key)]

IsGetOfEntry ==
  /\ ops' # ops
  /\ got'.op = "get"
  /\ IndexOf(cache, got'.key) # 0

\* C14 (as stated): get returns a stored entry exactly while
\* now <= createdAt + baseTTL * (1 + 0.5 * q), q being the entry's quality
\* score; an entry with q = 1 is gone by createdAt + 2 * baseTTL.
C14_AvailableUntilAdaptiveTtl ==
  [][IsGetOfEntry
       => (got'.hit <=> 20 * (now - Looked.timestamp) <= DefaultBaseTtl * (20 + Looked.quality))]_vars

\* C14 (amended): get returns a stored entry exactly while
\* now <= createdAt + ttl * (1 + 0.5 * q), where ttl is baseTTL multiplied
\* by 1.5 for content longer than 500 characters, by 2 for content holding a
\* code fence, and by 1.8 for q > 0.8 (times in whole seconds).
C14_AvailableUntilDynamicTtl ==
  [][IsGetOfEntry
       => LET content == Looked.response.content
              q == Looked.quality
              percent == (IF Len(content) > 500 THEN 15 ELSE 10)
                           * (IF includes(content, <<"backtick", "backtick", "backtick">>) THEN 2 ELSE 1)
                           * (IF q > 8 THEN 18 ELSE 10)
              age == (now - Looked.timestamp) \div 1000
          IN  got'.hit <=> 2000 * age <= (DefaultBaseTtl \div 1000) * percent * (20 + q)]_vars

\* a top-quality entry is still returned later than createdAt + 2 * baseTTL
C14_Witness ==
  /\ got.op = "get"
  /\ got.hit
  /\ \E i \in 1..Len(cache) :
       /\ cache[i].key = got.key
       /\ cache[i].quality = 10
       /\ now - cache[i].timestamp > 2 * DefaultBaseTtl

\* C15: a call made with an onChunk that is not callable fails at once: its
\* promise rejects, and it has made no cache lookup, no cache write and no
\* network request.
C15_BadCallbackFailsFast ==
  \A c \in Calls :
    (Started(c) /\ calls[c].onChunk # "function")
      => /\ calls[c].pc = "rejected"
         /\ calls[c].gets = 0
         /\ calls[c].sets = 0
         /\ calls[c].fetches = 0

LabelsOf(c) == {calls[c].chunks[i].model : i \in 1..Len(calls[c].chunks)}

\* C17: the labels on the chunks of a fallback delivery (a call in fallback
\* that delivered no network content before) are disjoint from the labels
\* on the chunks of instant, cache-hit and network deliveries.
C17_FallbackLabelDistinct ==
  \A c, d \in Calls :
    ( /\ calls[c].path = "fallback"
      /\ calls[c].fullResponse = <<>>
      /\ calls[d].path \in {"instant", "cache", "network", "success", "ended"} )
      => LabelsOf(c) \cap LabelsOf(d) = {}

\* C18 (as stated): the fallback texts of any two different categories among
\* auto, code, creative, knowledge and general differ.
C18_FallbackDistinctPerCategory ==
  probe.fn = "getFallbackResponse"
    => (probe.args[1].serviceType # probe.args[2].serviceType
          => probe.results[1] # probe.results[2])

\* C18 (amended): the fallback texts of any two different categories among
\* code, creative, knowledge and general differ, whatever the latest turn;
\* auto has no text of its own and gets the text of general.
C18_FallbackDistinctExceptAuto ==
  probe.fn = "getFallbackResponse"
    => LET s1 == probe.args[1].serviceType
           s2 == probe.args[2].serviceType
       IN  /\ (s1 # s2 /\ {s1, s2} # {<<"a", "u", "t", "o">>, <<"g", "e", "n", "e", "r", "a", "l">>}) => probe.results[1] # probe.results[2]
           /\ {s1, s2} = {<<"a", "u", "t", "o">>, <<"g", "e", "n", "e", "r", "a", "l">>} => probe.results[1] = probe.results[2]

C18_Witness ==
  /\ probe.fn = "getFallbackResponse"
  /\ probe.args[1].serviceType = <<"c", "o", "d", "e">>
  /\ probe.args[2].serviceType = <<"k", "n", "o", "w", "l", "e", "d", "g", "e">>
  /\ probe.results[1] # probe.results[2]
  /\ probe.results[1] # <<>>

\* C19: getCacheKey gives equal keys to equal (conversation, category)
\* arguments and different keys to arguments that have the same conversation
\* and different categories.
C19_KeySeparatesCategories ==
  probe.fn = "getCacheKey"
    => /\ probe.args[1] = probe.args[2] => probe.results[1] = probe.results[2]
       /\ ( /\ probe.args[1].messages = probe.args[2].messages
            /\ probe.args[1].serviceType # probe.args[2].serviceType )
            => probe.results[1] # probe.results[2]

C19_Witness ==
  /\ probe.fn = "getCacheKey"
  /\ Len(probe.args[1].messages) = 4
  /\ probe.args[1].messages = probe.args[2].messages
  /\ probe.args[1].serviceType = <<"c", "r", "e", "a", "t", "i", "v", "e">>
  /\ probe.args[2].serviceType = <<"k", "n", "o", "w", "l", "e", "d", "g", "e">>
  /\ probe.results[1] # probe.results[2]

\* the promise of sendMessage before any chunk: pending, nothing accumulated
Pending ==
  [settled |-> FALSE, value |-> NoResponse, error |-> Undefined,
   fullContent |-> <<>>, responseModel |-> "PandaNexus AI"]

\* resolve(value): only the first call settles the promise
Resolve(p, content, model, error) ==
  IF p.settled THEN p
  ELSE [p EXCEPT !.settled = TRUE,
                 !.value = [content |-> content, model |-> model, imageUrl |-> <<>>],
                 !.error = error]

\* the callback sendMessage hands to sendMessageStream, run on one chunk
sendMessageCallback(p, chunk) ==
  IF chunk.error # Undefined
    THEN Resolve(p, IF chunk.chunk # <<>> THEN chunk.chunk ELSE <<"A", "n", " ", "e", "r", "r", "o", "r", " ", "o", "c", "c", "u", "r", "r", "e", "d">>,
                 "Error", chunk.error)
  ELSE LET p1 == IF chunk.model # Undefined THEN [p EXCEPT !.responseModel = chunk.model] ELSE p
       IN  IF ~chunk.isFinal THEN [p1 EXCEPT !.fullContent = @ \o chunk.chunk]
           ELSE Resolve(p1, p1.fullContent, p1.responseModel, Undefined)

RECURSIVE Replay(_, _)
Replay(p, chunks) ==
  IF chunks = <<>> THEN p ELSE Replay(sendMessageCallback(p, Head(chunks)), Tail(chunks))

\* the promise of sendMessage(messages, serviceType) wrapped around call c
sendMessage(c) == Replay(Pending, calls[c].chunks)

\* the texts of the non-final chunks of a call, concatenated in order
NonFinalText(c) ==
  Concat([i \in 1..Len(SelectSeq(calls[c].chunks, LAMBDA ch : ~ch.isFinal))
            |-> SelectSeq(calls[c].chunks, LAMBDA ch : ~ch.isFinal)[i].chunk])

\* C20: once the underlying sendMessageStream call is over (its promise
\* resolved or rejected, so that no further chunk can arrive) the promise of
\* sendMessage is resolved, and unless it carries an error its content is
\* the concatenation of the non-final chunks of the call.
C20_SendMessageResolves ==
  \A c \in Calls :
    (calls[c].onChunk = "function" /\ calls[c].pc \in {"done", "rejected"})
      => /\ sendMessage(c).settled
         /\ sendMessage(c).error = Undefined => sendMessage(c).value.content = NonFinalText(c)

\* C21: when clearCache() has been called the response cache holds no
\* entries (and no popularity counters), so that every lookup misses until a
\* later set.
C21_ClearCacheEmptiesStore ==
  [][(ops' # ops /\ got'.op = "clearCache") => (cache' = <<>> /\ hitCount' = <<>>)]_vars

\* C22: every call that has issued its network request eventually resolves
\* with a final chunk as its last chunk, whatever the transport does.
C22_NetworkCallTerminates ==
  \A c \in Calls :
    (calls[c].fetches > 0)
      ~> (Resolved(c) /\ calls[c].chunks # <<>> /\ LastChunk(c).isFinal)

\* C23: once a call has received an error payload frame it is in fallback,
\* it has written nothing to the cache, and when it has resolved its last
\* chunk is a final chunk.
C23_ErrorFrameGivesFallback ==
  \A c \in Calls :
    calls[c].errorFrame
      => /\ calls[c].path = "fallback"
         /\ calls[c].sets = 0
         /\ Resolved(c) => (calls[c].chunks # <<>> /\ LastChunk(c).isFinal)

\* a direct set was made by the step
IsSet == ops' = ops + 1 /\ got'.op = "none"

\* no entry of the store scores below entry i (a zero age scores Infinity)
MinimizesScore(i) ==
  \A j \in 1..Len(cache) :
    ~ScoreBelow(EvictScore(cache[j], hitCount, now), EvictScore(cache[i], hitCount, now))

\* C24: a set made with the store at capacity evicts one existing entry
\* before it inserts - the store does not grow - and the entry that leaves
\* minimizes (quality * popularity) / age in seconds among all entries.
C24_EvictsOneMinimizer ==
  [][(IsSet /\ Len(cache) >= MaxSize)
       => LET gone == {i \in 1..Len(cache) : cache[i].key \notin CacheKeys(cache')}
          IN  /\ Len(cache') <= Len(cache)
              /\ Cardinality(gone) <= 1
              /\ \A i \in gone : MinimizesScore(i)]_vars

\* C25: for every text simulateTyping delivers one non-final chunk per word
\* (the pieces between single blanks, in order) and then one final chunk
\* with empty text, and the texts of the non-final chunks concatenated in
\* order are the input text, character for character.
C25_TypingRoundTrip ==
  probe.fn = "simulateTyping"
    => LET text == probe.args[1].text
           chunks == probe.results
           n == Len(chunks)
           blanks == Cardinality({i \in 1..Len(text) : text[i] = " "})
       IN  /\ n = blanks + 2
           /\ chunks[n].isFinal /\ chunks[n].chunk = <<>>
           /\ \A i \in 1..(n - 1) : ~chunks[i].isFinal
           /\ Concat([i \in 1..(n - 1) |-> chunks[i].chunk]) = text
           /\ \A i \in 2..(n - 1) : chunks[i].chunk # <<>> /\ Head(chunks[i].chunk) = " "

C25_Witness ==
  /\ probe.fn = "simulateTyping"
  /\ probe.args[1].text = <<"a", " ", " ">>
  /\ Len(probe.results) = 4
  /\ probe.results[3].chunk = <<" ">>

\* C26: a call that had its network request in flight when cancelRequest
\* was called has had its request aborted by that call.
C26_CancelAbortsInFlight ==
  [][\A c \in Calls :
       (InFlight(c) /\ ~calls[c].userCancel /\ calls'[c].userCancel) => calls'[c].aborted]_vars

\* C27: when the timeout timer of a call fires, no other call is aborted by
\* it - in particular no call started after the timer's own call has ended.
C27_TimerAbortsOwnRequestOnly ==
  [][\A c, d \in Calls :
       (c # d /\ calls[c].timer = "armed" /\ calls'[c].timer = "fired")
         => calls'[d].aborted = calls[d].aborted]_vars

\* C28: for a resolved call that ended in fallback, the text a caller has
\* accumulated from its non-final chunks is the fallback message alone.
C28_FallbackTextAlone ==
  \A c \in Calls :
    (Resolved(c) /\ calls[c].path = "fallback")
      => NonFinalText(c) = getFallbackResponse(LastContent(c), calls[c].serviceType)

\* C29: after any sequence of get and set calls the keys of the entry map
\* are exactly the keys of the popularity counter map (and no key occurs
\* twice among the entries).
C29_KeySetsAgree ==
  /\ CacheKeys(cache) = DOMAIN hitCount
  /\ Cardinality(CacheKeys(cache)) = Len(cache)

\* a get has just missed (or purged) while other entries remain, after an
\* eviction-prone history on an aged store
C29_Witness ==
  /\ got.op = "get"
  /\ ~got.hit
  /\ now > 0
  /\ ops >= 4
  /\ Len(cache) >= MaxSize
  /\ got.key \notin CacheKeys(cache)

MessageWithId(v, id) == {v.messages[i] : i \in {j \in 1..Len(v.messages) : v.messages[j].id = id}}

\* C30: once the user has stopped a response and submitted a new message, a
\* step in which chunks of the stopped request arrive changes neither the
\* loading flag, nor the current streaming-message id, nor the stopped message.
C30_LateChunksChangeNothing ==
  [][\A a \in view.stopped :
       ( /\ \E b \in Calls : b > a /\ view.request[b] # 0
         /\ calls'[a].chunks # calls[a].chunks )
         => /\ view'.isLoading = view.isLoading
            /\ view'.streamingMessageId = view.streamingMessageId
            /\ MessageWithId(view', view.request[a]) = MessageWithId(view, view.request[a])]_vars

====
